---- MODULE Spec2Model ----
(***************************************************************************)
(* EconDash (src/app.py): the hour-bucketed lru_cache in front of the FRED *)
(* provider, and the derived metrics of the /dashboard and /yield-curve    *)
(* views.                                                                  *)
(*                                                                         *)
(* Library semantics the source relies on and the model follows:           *)
(*  - functools.lru_cache(maxsize=128): a hit moves the entry to the       *)
(*    most-recently-used end; a miss runs the function WITHOUT holding     *)
(*    the lock, and afterwards stores the result only if the key is still  *)
(*    absent (a result computed by a racing caller is returned to that     *)
(*    caller but does not replace the entry already stored); storing into  *)
(*    a full cache evicts the least-recently-used entry; a call that       *)
(*    raises stores nothing.                                               *)
(*  - pandas: DataFrame([]) has no columns, so df["value"] raises KeyError;*)
(*    to_numeric(errors="coerce") turns an unparseable value into NaN;     *)
(*    Series.where(cond, None) on a float column yields None in an object  *)
(*    column with pandas < 1.3 and leaves NaN with pandas >= 1.3 (None is  *)
(*    taken as the column's NA value).  The repository pins no version, so *)
(*    the build decides: where_gives_none is chosen in Init.               *)
(*  - a float division by zero raises ZeroDivisionError on Python floats   *)
(*    (object column) and yields inf/nan on numpy.float64 values.          *)
(***************************************************************************)
EXTENDS Integers, Sequences, FiniteSets, TLC

VARIABLES
    now,              \* datetime.now(), in ticks of 1/TicksPerHour hour
    where_gives_none, \* the build: does line 75 turn NaN into None?
    cache,            \* lru_cache of fetch_fred_data_cached, LRU first, MRU last
    pc,               \* per request thread: "idle", "waiting", "returned", "raised"
    call,             \* per thread: the lru key of its current / last fetch
    ret,              \* per thread: the table its last fetch returned
    sent,             \* per thread: outbound requests issued by its current / last fetch
    got,              \* per thread: the kind of answer its request received
    lastHour,         \* history: per series, the hour of its latest hourly fetch
    usedSince,        \* history: keys stored or hit since the full-history entry was last stored or hit
    pinnedDone,       \* history: a full-history fetch has returned a table
    route,            \* the view being served: "none", "dashboard", "yield_curve", "done"
    step,             \* position in the view's sequence of fetches
    summary,          \* dashboard: summary list
    yield_curve_data, \* dashboard: yield_curve_data list
    treasury_data,    \* yield_curve: treasury_data dict, in insertion order
    sorted_treasuries,\* yield_curve: sorted_treasuries
    dgs2,             \* dashboard: table of the second DGS2 fetch
    fetched,          \* history: the tables the view's fetches returned, in order
    spread_2_10,      \* both views
    is_inverted,      \* both views
    status            \* response: 0 (none yet), 200, 500

vars == << now, where_gives_none, cache, pc, call, ret, sent, got, lastHour,
           usedSince, pinnedDone, route, step, summary, yield_curve_data,
           treasury_data, sorted_treasuries, dgs2, fetched, spread_2_10, is_inverted,
           status >>

cacheVars == << cache, pc, call, ret, sent, got, lastHour, usedSince, pinnedDone >>

viewVars == << route, step, summary, yield_curve_data, treasury_data,
               sorted_treasuries, dgs2, fetched, spread_2_10, is_inverted, status >>

(***************************************************************************)
(* Bounds                                                                  *)
(***************************************************************************)
TicksPerHour == 2
MaxTime == 3
MaxObs == 2

Threads == {1, 2}

(***************************************************************************)
(* Program constants                                                       *)
(***************************************************************************)
maxsize == 128

\* INDICATORS.items(), in dict order.
INDICATORS ==
    << [key |-> "GDP",      series_id |-> "GDP"],
       [key |-> "UNRATE",   series_id |-> "UNRATE"],
       [key |-> "CPI",      series_id |-> "CPIAUCSL"],
       [key |-> "FEDFUNDS", series_id |-> "FEDFUNDS"],
       [key |-> "SP500",    series_id |-> "SP500"] >>

\* TREASURY_YIELDS.items(), in dict order; maturity in months (years * 12).
TREASURY_YIELDS ==
    << [key |-> "DGS1MO", series_id |-> "DGS1MO", maturity |-> 1],
       [key |-> "DGS3MO", series_id |-> "DGS3MO", maturity |-> 3],
       [key |-> "DGS6MO", series_id |-> "DGS6MO", maturity |-> 6],
       [key |-> "DGS1",   series_id |-> "DGS1",   maturity |-> 12],
       [key |-> "DGS2",   series_id |-> "DGS2",   maturity |-> 24],
       [key |-> "DGS5",   series_id |-> "DGS5",   maturity |-> 60],
       [key |-> "DGS10",  series_id |-> "DGS10",  maturity |-> 120],
       [key |-> "DGS30",  series_id |-> "DGS30",  maturity |-> 360] >>

(***************************************************************************)
(* Values of the "value" column                                            *)
(***************************************************************************)
None == [k |-> "None", v |-> 0]
NaN == [k |-> "nan", v |-> 0]
Inf(sign) == [k |-> "inf", v |-> sign]
Num(n) == [k |-> "num", v |-> n]

IsNone(x) == x.k = "None"
IsNum(x) == x.k = "num"

EmptyTable == << >>

(***************************************************************************)
(* get_cache_key and the lru key                                           *)
(***************************************************************************)
\* Mutant: the key format without the hour, "%Y-%m-%d".
get_cache_key_daily(t) == t \div (24 * TicksPerHour)

\* strftime("%Y-%m-%d-%H") keeps the hour and drops minutes and seconds.
get_cache_key(t) == t \div TicksPerHour

HourKey(h) == [full |-> FALSE, code |-> "", hour |-> h]
FullKey(series_id) == [full |-> TRUE, code |-> series_id, hour |-> 0]

\* Mutant: the full-history tag is dropped, every fetch uses the hourly key.
LruKey_hourly_only(series_id, full_history, t) ==
    << series_id, HourKey(get_cache_key(t)) >>

\* Line 81, and the argument tuple lru_cache keys on.
LruKey(series_id, full_history, t) ==
    << series_id, IF full_history THEN FullKey(series_id) ELSE HourKey(get_cache_key(t)) >>

NoKey == << "", HourKey(-1) >>

(***************************************************************************)
(* The provider's answer to one requests.get, and lines 56-76              *)
(***************************************************************************)
\* Transport failure or timeout, non-success status, a body that is not
\* JSON, a JSON object without "observations".
Failures == {"transport", "status", "badjson", "noobs"}

\* The "value" strings of the provider: "." marks a missing reading.
ObsValues == {".", "0", "1"}

\* Well-formed bodies: 1..n observations with distinct dates, in any order.
RECURSIVE BodiesOfLen(_, _)
BodiesOfLen(n, dates) ==
    IF n = 0 THEN { << >> }
    ELSE { << [date |-> d, value |-> v] >> \o b :
             d \in dates, v \in ObsValues, b \in BodiesOfLen(n - 1, dates) }

DistinctDates(b) == \A i, j \in 1..Len(b) : i # j => b[i].date # b[j].date

Bodies(n) ==
    { b \in UNION { BodiesOfLen(m, 1..n) : m \in 1..n } : DistinctDates(b) }

Response(kind, obs) == [kind |-> kind, observations |-> obs]

Responses(n) ==
    { Response(k, << >>) : k \in Failures \cup {"emptylist"} }
        \cup { Response("ok", b) : b \in Bodies(n) }

\* pd.to_numeric(errors="coerce"), line 72.
to_numeric(s) ==
    CASE s = "0" -> Num(0)
      [] s = "1" -> Num(1)
      [] s = "2" -> Num(2)
      [] OTHER -> NaN

\* df["value"].where(pd.notna(df["value"]), None), line 75.
where_notna(x, gives_none) == IF x = NaN /\ gives_none THEN None ELSE x

\* df.sort_values("date", ascending=False).reset_index(drop=True), line 74.
RECURSIVE InsertDesc(_, _)
InsertDesc(row, df) ==
    IF df = << >> THEN << row >>
    ELSE IF row.date >= Head(df).date THEN << row >> \o df
    ELSE << Head(df) >> \o InsertDesc(row, Tail(df))

RECURSIVE sort_values(_)
sort_values(df) ==
    IF df = << >> THEN << >> ELSE InsertDesc(Head(df), sort_values(Tail(df)))

Raised == [raised |-> TRUE, df |-> EmptyTable]
Returned(df) == [raised |-> FALSE, df |-> df]

\* Lines 71-76 on a non-empty observations list.
parse_observations(observations, gives_none) ==
    LET numeric == [i \in 1..Len(observations) |->
                      [date |-> observations[i].date,
                       value |-> to_numeric(observations[i].value)]]
        sorted == sort_values(numeric)
    IN [i \in 1..Len(sorted) |->
          [date |-> sorted[i].date,
           value |-> where_notna(sorted[i].value, gives_none)]]

\* Mutant: no except clauses, a failed request raises.
fetch_fred_data_cached_no_except(resp, gives_none) ==
    IF resp.kind \in Failures \/ resp.observations = << >>
    THEN Raised
    ELSE Returned(parse_observations(resp.observations, gives_none))

\* The body of fetch_fred_data_cached for one provider answer.
fetch_fred_data_cached(resp, gives_none) ==
    IF resp.kind \in Failures
    THEN Returned(EmptyTable)                 \* lines 60-65 and 67-69
    ELSE IF resp.observations = << >>
    THEN Raised                               \* line 72: KeyError 'value'
    ELSE Returned(parse_observations(resp.observations, gives_none))

(***************************************************************************)
(* functools.lru_cache(maxsize=128), line 42                               *)
(***************************************************************************)
InCache(c, k) == \E i \in 1..Len(c) : c[i].key = k

Lookup(c, k) == c[CHOOSE i \in 1..Len(c) : c[i].key = k].val

\* A hit moves the entry to the most-recently-used end.
Touch(c, k) ==
    LET i == CHOOSE j \in 1..Len(c) : c[j].key = k
    IN SubSeq(c, 1, i - 1) \o SubSeq(c, i + 1, Len(c)) \o << c[i] >>

\* Mutant: a result computed by a racing caller replaces the stored entry.
Store_overwrite(c, k, v) ==
    IF InCache(c, k)
    THEN [i \in 1..Len(c) |-> IF c[i].key = k THEN [key |-> k, val |-> v] ELSE c[i]]
    ELSE IF Len(c) >= maxsize THEN Append(Tail(c), [key |-> k, val |-> v])
    ELSE Append(c, [key |-> k, val |-> v])

\* After the wrapped function returned: keep an entry stored meanwhile,
\* else append, evicting the least-recently-used entry of a full cache.
Store(c, k, v) ==
    IF InCache(c, k) THEN c
    ELSE IF Len(c) >= maxsize THEN Append(Tail(c), [key |-> k, val |-> v])
    ELSE Append(c, [key |-> k, val |-> v])

(***************************************************************************)
(* The keys the routes can produce                                         *)
(***************************************************************************)
\* The (series_id, full_history) pairs of lines 90, 105, 127, 137, 138, 183, 194.
RouteCalls ==
    { << INDICATORS[i].series_id, INDICATORS[i].key = "SP500" >> : i \in 1..Len(INDICATORS) }
        \cup { << TREASURY_YIELDS[i].series_id, FALSE >> : i \in 1..Len(TREASURY_YIELDS) }

PinnedKey == << "SP500", FullKey("SP500") >>

\* series_id of every series fetched with the hourly key, in dict order.
HourlyCodes ==
    LET ind == SelectSeq(INDICATORS, LAMBDA e : e.key # "SP500")
    IN [i \in 1..Len(ind) |-> ind[i].series_id]
         \o [i \in 1..Len(TREASURY_YIELDS) |-> TREASURY_YIELDS[i].series_id]

(***************************************************************************)
(* A cache that has been in use: /sp500 was served once, and since then    *)
(* the hourly pages were served for the maxsize - 1 most recent            *)
(* (series, hour) pairs of the hours before hour 0 while the provider was  *)
(* down, so the full-history entry is the least recently used of a full    *)
(* cache.                                                                  *)
(***************************************************************************)
PinnedTable == << [date |-> 1, value |-> Num(1)] >>

StaleKey(i) ==
    LET n == Len(HourlyCodes)
        hours == (maxsize - 1 + n - 1) \div n
        j == i - 1 + (hours * n - (maxsize - 1))
    IN << HourlyCodes[(j % n) + 1], HourKey((j \div n) - hours) >>

AgedCache ==
    << [key |-> PinnedKey, val |-> PinnedTable] >>
        \o [i \in 1..(maxsize - 1) |-> [key |-> StaleKey(i), val |-> EmptyTable]]

\* The hour of the latest fetch of the series named in AgedCache.
StaleHour(series_id) ==
    LET hs == { StaleKey(i)[2].hour : i \in { j \in 1..(maxsize - 1) : StaleKey(j)[1] = series_id } }
    IN CHOOSE h \in hs : \A g \in hs : g <= h

\* lastHour of a series never fetched: an hour before every hour of the model.
NeverFetched == StaleKey(1)[2].hour - 1

InitCache ==
    /\ cache \in { << >>, AgedCache }
    /\ pc = [t \in Threads |-> "idle"]
    /\ call = [t \in Threads |-> NoKey]
    /\ ret = [t \in Threads |-> EmptyTable]
    /\ sent = [t \in Threads |-> 0]
    /\ got = [t \in Threads |-> "none"]
    /\ lastHour = [i \in 1..Len(HourlyCodes) |->
                      IF cache = << >> THEN NeverFetched ELSE StaleHour(HourlyCodes[i])]
    /\ usedSince = IF cache = << >> THEN {} ELSE { StaleKey(i) : i \in 1..(maxsize - 1) }
    /\ pinnedDone = (cache # << >>)

InitView ==
    /\ route = "none"
    /\ step = 0
    /\ summary = << >>
    /\ yield_curve_data = << >>
    /\ treasury_data = << >>
    /\ sorted_treasuries = << >>
    /\ dgs2 = EmptyTable
    /\ fetched = << >>
    /\ spread_2_10 = None
    /\ is_inverted = FALSE
    /\ status = 0

Init ==
    /\ now = 0
    /\ where_gives_none \in BOOLEAN
    /\ InitCache
    /\ InitView

(***************************************************************************)
(* fetch_fred_data, lines 79-82, up to the lookup in the lru_cache wrapper *)
(***************************************************************************)
Used(k) == IF k = PinnedKey THEN {} ELSE usedSince \cup {k}

HourlyIndex(series_id) == CHOOSE i \in 1..Len(HourlyCodes) : HourlyCodes[i] = series_id

fetch_fred_data(t, series_id, full_history) ==
    LET k == LruKey(series_id, full_history, now)
    IN /\ pc[t] = "idle"
       /\ call' = [call EXCEPT ![t] = k]
       /\ lastHour' = IF full_history THEN lastHour
                      ELSE [lastHour EXCEPT ![HourlyIndex(series_id)] = now \div TicksPerHour]
       /\ IF InCache(cache, k)
          THEN /\ cache' = Touch(cache, k)
               /\ pc' = [pc EXCEPT ![t] = "returned"]
               /\ ret' = [ret EXCEPT ![t] = Lookup(cache, k)]
               /\ sent' = [sent EXCEPT ![t] = 0]
               /\ usedSince' = Used(k)
               /\ pinnedDone' = (pinnedDone \/ k = PinnedKey)
          ELSE /\ pc' = [pc EXCEPT ![t] = "waiting"]       \* requests.get, line 57
               /\ ret' = [ret EXCEPT ![t] = EmptyTable]
               /\ sent' = [sent EXCEPT ![t] = 1]
               /\ UNCHANGED << cache, usedSince, pinnedDone >>
       /\ UNCHANGED << now, where_gives_none, got >>

\* The request of thread t completes with answer resp: lines 58-76, then
\* the lru_cache wrapper stores the result and returns it.
provider_response(t, resp) ==
    LET k == call[t]
        r == fetch_fred_data_cached(resp, where_gives_none)
        stores == ~r.raised /\ ~InCache(cache, k)
    IN /\ pc[t] = "waiting"
       /\ pc' = [pc EXCEPT ![t] = IF r.raised THEN "raised" ELSE "returned"]
       /\ ret' = [ret EXCEPT ![t] = r.df]
       /\ got' = [got EXCEPT ![t] = resp.kind]
       /\ cache' = IF r.raised THEN cache ELSE Store(cache, k, r.df)
       /\ usedSince' = IF stores THEN Used(k) ELSE usedSince
       /\ pinnedDone' = (pinnedDone \/ (~r.raised /\ k = PinnedKey))
       /\ UNCHANGED << now, where_gives_none, call, sent, lastHour >>

\* datetime.now() moves on.
Tick ==
    /\ now < MaxTime
    /\ now' = now + 1
    /\ UNCHANGED << where_gives_none, cacheVars, viewVars >>

(***************************************************************************)
(* The single-indicator routes (lines 153-187): get_data / sp500 make one  *)
(* fetch and render it, or the raised error becomes a 500.                 *)
(***************************************************************************)
\* The series the cache specification requests.
CacheSeries == {"SP500", "DGS2"}

\* The provider answers the cache specification draws from.
CacheResponses ==
    { Response(k, << >>) : k \in Failures \cup {"emptylist"} }
        \cup { Response("ok", << [date |-> 1, value |-> "1"] >>) }

indicator_page(t) ==
    /\ \E c \in RouteCalls : c[1] \in CacheSeries /\ fetch_fred_data(t, c[1], c[2])
    /\ UNCHANGED viewVars

indicator_response(t) ==
    /\ \E resp \in CacheResponses : provider_response(t, resp)
    /\ UNCHANGED viewVars

\* render_template, or the 500 handler: the request is over.
indicator_render(t) ==
    /\ pc[t] \in {"returned", "raised"}
    /\ pc' = [pc EXCEPT ![t] = "idle"]
    /\ call' = [call EXCEPT ![t] = NoKey]
    /\ ret' = [ret EXCEPT ![t] = EmptyTable]
    /\ sent' = [sent EXCEPT ![t] = 0]
    /\ got' = [got EXCEPT ![t] = "none"]
    /\ UNCHANGED << now, where_gives_none, cache, lastHour, usedSince, pinnedDone, viewVars >>

Next ==
    \/ Tick
    \/ \E t \in Threads : indicator_page(t)
    \/ \E t \in Threads : indicator_response(t)
    \/ \E t \in Threads : indicator_render(t)

Spec == Init /\ [][Next]_vars

(***************************************************************************)
(* Arithmetic on "value" cells that are not None (floats, NaN included)    *)
(***************************************************************************)
\* a - b
Minus(a, b) == IF IsNum(a) /\ IsNum(b) THEN Num(a.v - b.v) ELSE NaN

\* a > 0 and a < 0; every comparison with NaN is False.
Positive(a) == IsNum(a) /\ a.v > 0
Negative(a) == IsNum(a) /\ a.v < 0

\* (change / prior) * 100 for prior # 0.  The observation values of the
\* model make the division exact.
Percent(change, prior) ==
    IF IsNum(change) /\ IsNum(prior) THEN Num((change.v * 100) \div prior.v) ELSE NaN

\* change / 0 where the operands are numpy.float64: inf, -inf or nan.
PercentByZero(change) ==
    IF Positive(change) THEN Inf(1) ELSE IF Negative(change) THEN Inf(-1) ELSE NaN

\* The outcomes of a float division by zero: ZeroDivisionError on Python
\* floats, a non-finite number on numpy.float64.
ZeroDivisionOutcomes == {"ZeroDivisionError", "nonfinite"}

(***************************************************************************)
(* /dashboard, lines 101-150, and /yield-curve, lines 190-217              *)
(***************************************************************************)
\* The series the view specification iterates over (a subset of the dicts).
ViewIndicators == {"GDP"}
ViewTreasuries == {"DGS2", "DGS10"}

\* The thread that serves the view.
ViewThread == CHOOSE t \in Threads : \A u \in Threads : t <= u

\* date of a summary entry whose current value is None: "N/A" (line 118).
NA == 0

IndicatorItems == SelectSeq(INDICATORS, LAMBDA e : e.key \in ViewIndicators)
TreasuryItems == SelectSeq(TREASURY_YIELDS, LAMBDA e : e.key \in ViewTreasuries)

\* The fetches of a view, in program order.
Plan(view) ==
    IF view = "dashboard"
    THEN [i \in 1..Len(IndicatorItems) |->
            [phase |-> "summary", key |-> IndicatorItems[i].key,
             series_id |-> IndicatorItems[i].series_id, maturity |-> 0,
             full_history |-> IndicatorItems[i].key = "SP500"]]
         \o [i \in 1..Len(TreasuryItems) |->
            [phase |-> "curve", key |-> TreasuryItems[i].key,
             series_id |-> TreasuryItems[i].series_id,
             maturity |-> TreasuryItems[i].maturity, full_history |-> FALSE]]
         \o << [phase |-> "dgs2", key |-> "DGS2", series_id |-> "DGS2",
                maturity |-> 24, full_history |-> FALSE],
               [phase |-> "dgs10", key |-> "DGS10", series_id |-> "DGS10",
                maturity |-> 120, full_history |-> FALSE] >>
    ELSE [i \in 1..Len(TreasuryItems) |->
            [phase |-> "treasury", key |-> TreasuryItems[i].key,
             series_id |-> TreasuryItems[i].series_id,
             maturity |-> TreasuryItems[i].maturity, full_history |-> FALSE]]

\* list.sort(key=maturity) / sorted(..., key=maturity): stable, ascending.
RECURSIVE InsertByMaturity(_, _)
InsertByMaturity(x, xs) ==
    IF xs = << >> THEN << x >>
    ELSE IF x.maturity < Head(xs).maturity THEN << x >> \o xs
    ELSE << Head(xs) >> \o InsertByMaturity(x, Tail(xs))

RECURSIVE sort_by_maturity(_)
sort_by_maturity(xs) ==
    IF xs = << >> THEN << >>
    ELSE LET n == Len(xs)
         IN InsertByMaturity(xs[n], sort_by_maturity(SubSeq(xs, 1, n - 1)))

\* Lines 107-122: the summary entry of a non-empty table; zd is the outcome
\* of a division by zero, should line 112 divide by zero.
summary_entry(key, df, zd) ==
    LET latest == df[1]
        has_previous == Len(df) > 1
        computes == has_previous /\ ~IsNone(latest.value) /\ ~IsNone(df[2].value)
        change == IF computes THEN Minus(latest.value, df[2].value) ELSE None
        by_zero == computes /\ df[2].value = Num(0)
        pct_change == IF ~computes THEN None
                      ELSE IF by_zero THEN PercentByZero(change)
                      ELSE Percent(change, df[2].value)
        trend == IF ~computes THEN "None"
                 ELSE IF Positive(change) THEN "up"
                 ELSE IF Negative(change) THEN "down" ELSE "stable"
    IN [raised |-> by_zero /\ zd = "ZeroDivisionError",
        entry |-> [key |-> key, current |-> latest.value,
                   date |-> IF ~IsNone(latest.value) THEN latest.date ELSE NA,
                   change |-> change, pct_change |-> pct_change, trend |-> trend]]

\* Lines 141-146 (r2, r10 are None when the table is empty) and 209-214.
spread_of(r2, r10) ==
    IF ~IsNone(r2) /\ ~IsNone(r10)
    THEN [spread |-> Minus(r10, r2), inverted |-> Negative(Minus(r10, r2))]
    ELSE [spread |-> None, inverted |-> FALSE]

Row0(df) == IF df = EmptyTable THEN None ELSE df[1].value

\* The provider answers the view specification draws from: every failure,
\* the empty list, and well-formed bodies (one observation for a Treasury
\* series, up to MaxObs for an indicator).
ViewResponses(series_id) ==
    IF series_id \in ViewTreasuries
    THEN Responses(1)
    ELSE Responses(MaxObs)

\* A request for the view arrives.
request(view) ==
    /\ route = "none"
    /\ route' = view
    /\ step' = 1
    /\ UNCHANGED << now, where_gives_none, cacheVars, summary, yield_curve_data,
                    treasury_data, sorted_treasuries, dgs2, fetched, spread_2_10,
                    is_inverted, status >>

\* The next fetch_fred_data call of the view (lines 105, 127, 137, 138, 194);
\* the dashboard sorts its curve (line 134) before the fetch of line 137.
view_fetch ==
    /\ route \in {"dashboard", "yield_curve"}
    /\ status = 0
    /\ step <= Len(Plan(route))
    /\ fetch_fred_data(ViewThread, Plan(route)[step].series_id, Plan(route)[step].full_history)
    /\ yield_curve_data' = IF Plan(route)[step].phase = "dgs2"
                           THEN sort_by_maturity(yield_curve_data) ELSE yield_curve_data
    /\ UNCHANGED << route, step, summary, treasury_data, sorted_treasuries, dgs2,
                    fetched, spread_2_10, is_inverted, status >>

view_response ==
    /\ route \in {"dashboard", "yield_curve"}
    /\ \E resp \in ViewResponses(call[ViewThread][1]) : provider_response(ViewThread, resp)
    /\ UNCHANGED viewVars

Idle(t) ==
    /\ pc' = [pc EXCEPT ![t] = "idle"]
    /\ UNCHANGED << now, where_gives_none, cache, call, ret, sent, got, lastHour,
                    usedSince, pinnedDone >>

\* fetch_fred_data raised: the 500 handler answers (lines 273-276).
view_error ==
    /\ route \in {"dashboard", "yield_curve"}
    /\ status = 0
    /\ pc[ViewThread] = "raised"
    /\ status' = 500
    /\ Idle(ViewThread)
    /\ UNCHANGED << route, step, summary, yield_curve_data, treasury_data,
                    sorted_treasuries, dgs2, fetched, spread_2_10, is_inverted >>

\* The dashboard goes on with the table the fetch returned.
dashboard_step ==
    /\ route = "dashboard"
    /\ status = 0
    /\ pc[ViewThread] = "returned"
    /\ LET p == Plan(route)[step]
           df == ret[ViewThread]
       IN /\ fetched' = Append(fetched, df)
          /\ step' = step + 1
          /\ \E zd \in ZeroDivisionOutcomes :
               LET e == summary_entry(p.key, df, zd)
                   fails == p.phase = "summary" /\ df # EmptyTable /\ e.raised
                   sp == spread_of(Row0(dgs2), Row0(df))
               IN /\ summary' = IF p.phase = "summary" /\ df # EmptyTable /\ ~e.raised
                                THEN Append(summary, e.entry) ELSE summary
                  /\ yield_curve_data' =
                        IF p.phase = "curve" /\ df # EmptyTable /\ ~IsNone(df[1].value)
                        THEN Append(yield_curve_data,
                                    [maturity |-> p.maturity, maturity_name |-> p.key,
                                     yield |-> df[1].value])
                        ELSE yield_curve_data
                  /\ dgs2' = IF p.phase = "dgs2" THEN df ELSE dgs2
                  /\ spread_2_10' = IF p.phase = "dgs10" THEN sp.spread ELSE spread_2_10
                  /\ is_inverted' = IF p.phase = "dgs10" THEN sp.inverted ELSE is_inverted
                  /\ status' = IF fails THEN 500 ELSE IF p.phase = "dgs10" THEN 200 ELSE 0
    /\ Idle(ViewThread)
    /\ UNCHANGED << route, treasury_data, sorted_treasuries >>

HasKey(items, key) == \E i \in 1..Len(items) : items[i].key = key
Item(items, key) == items[CHOOSE i \in 1..Len(items) : items[i].key = key]

\* The yield-curve page goes on with the table the fetch returned; after the
\* last one it sorts and computes the spread (lines 204-214).
yield_curve_step ==
    /\ route = "yield_curve"
    /\ status = 0
    /\ pc[ViewThread] = "returned"
    /\ LET p == Plan(route)[step]
           df == ret[ViewThread]
           data == IF df # EmptyTable
                   THEN Append(treasury_data,
                               [key |-> p.key, maturity |-> p.maturity,
                                current |-> df[1].value, date |-> df[1].date,
                                historical |-> df])
                   ELSE treasury_data
           finished == step = Len(Plan(route))
           sp == IF HasKey(data, "DGS2") /\ HasKey(data, "DGS10")
                 THEN spread_of(Item(data, "DGS2").current, Item(data, "DGS10").current)
                 ELSE spread_of(None, None)
       IN /\ fetched' = Append(fetched, df)
          /\ step' = step + 1
          /\ treasury_data' = data
          /\ sorted_treasuries' = IF finished THEN sort_by_maturity(data) ELSE sorted_treasuries
          /\ spread_2_10' = IF finished THEN sp.spread ELSE spread_2_10
          /\ is_inverted' = IF finished THEN sp.inverted ELSE is_inverted
          /\ status' = IF finished THEN 200 ELSE 0
    /\ Idle(ViewThread)
    /\ UNCHANGED << route, summary, yield_curve_data, dgs2 >>

ViewNext ==
    \/ Tick
    \/ \E view \in {"dashboard", "yield_curve"} : request(view)
    \/ view_fetch
    \/ view_response
    \/ view_error
    \/ dashboard_step
    \/ yield_curve_step

ViewSpec == Init /\ [][ViewNext]_vars

(***************************************************************************)
(* How a process gets the cache AgedCache: it starts with an empty cache   *)
(* in the hour of StaleKey(1), serves /sp500 once, and then serves the     *)
(* hourly pages in the order of StaleKey while the provider is down.       *)
(* AgingSpec runs exactly this sequence of requests with the actions       *)
(* above; AgedCacheReached is the state it ends in, which is the second    *)
(* initial state of Spec and ViewSpec.                                     *)
(***************************************************************************)
AgingInit ==
    /\ now = StaleKey(1)[2].hour * TicksPerHour
    /\ where_gives_none \in BOOLEAN
    /\ cache = << >>
    /\ pc = [t \in Threads |-> "idle"]
    /\ call = [t \in Threads |-> NoKey]
    /\ ret = [t \in Threads |-> EmptyTable]
    /\ sent = [t \in Threads |-> 0]
    /\ got = [t \in Threads |-> "none"]
    /\ lastHour = [i \in 1..Len(HourlyCodes) |-> NeverFetched]
    /\ usedSince = {}
    /\ pinnedDone = FALSE
    /\ InitView

aging_sp500 ==
    /\ cache = << >>
    /\ fetch_fred_data(ViewThread, "SP500", TRUE)
    /\ UNCHANGED viewVars

aging_hourly ==
    /\ Len(cache) \in 1..(maxsize - 1)
    /\ StaleKey(Len(cache))[2].hour = get_cache_key(now)
    /\ fetch_fred_data(ViewThread, StaleKey(Len(cache))[1], FALSE)
    /\ UNCHANGED viewVars

aging_response ==
    /\ provider_response(ViewThread,
          IF call[ViewThread] = PinnedKey
          THEN Response("ok", << [date |-> 1, value |-> "1"] >>)
          ELSE Response("transport", << >>))
    /\ UNCHANGED viewVars

aging_tick ==
    /\ \A t \in Threads : pc[t] = "idle"
    /\ \/ Len(cache) \in 1..(maxsize - 1) /\ StaleKey(Len(cache))[2].hour > get_cache_key(now)
       \/ Len(cache) = maxsize /\ now < 0
    /\ Tick

AgingNext ==
    \/ aging_sp500
    \/ aging_hourly
    \/ aging_response
    \/ indicator_render(ViewThread)
    \/ aging_tick

AgingSpec == AgingInit /\ [][AgingNext]_vars

\* The aged initial state of Spec, reached by AgingSpec from an empty cache.
AgedCacheReached == Init /\ cache = AgedCache

(***************************************************************************)
(* Properties of the fetch-and-cache layer                                 *)
(***************************************************************************)
Hour == now \div TicksPerHour

\* Thread t starts a fetch of series_id in this step.
Calls(t, series_id) == pc[t] = "idle" /\ pc'[t] # "idle" /\ call'[t][1] = series_id

\* The outbound request of thread t completes in this step.
Completes(t) == pc[t] = "waiting" /\ pc'[t] # "waiting"

\* The fetch of thread t is answered from the cache in this step.
Hits(t, k) ==
    /\ pc'[t] = "returned"
    /\ sent'[t] = 0
    /\ ret'[t] = Lookup(cache, k)
    /\ InCache(cache', k)
    /\ Lookup(cache', k) = Lookup(cache, k)

HourlySeries == { c[1] : c \in { d \in RouteCalls : ~d[2] } }

\* A fetch issues at most one outbound request.
OneRequestPerCall == \A t \in Threads : sent[t] \in {0, 1} /\ (pc[t] = "waiting" => sent[t] = 1)

\* C1: a fetch of an hourly series made while the cache holds an entry for
\* (series, current hour) returns that entry and issues no outbound request;
\* the first fetch of the series in a new hour issues exactly one.
C1_HourBucket ==
    /\ []OneRequestPerCall
    /\ [][\A t \in Threads : \A s \in HourlySeries :
            Calls(t, s) =>
              /\ InCache(cache, << s, HourKey(Hour) >>) => Hits(t, << s, HourKey(Hour) >>)
              /\ lastHour[HourlyIndex(s)] # Hour => sent'[t] = 1 /\ pc'[t] = "waiting"]_vars

\* C1 witness: in hour 1 a fetch was answered from the entry that the first
\* fetch of hour 1 stored, while the entry of hour 0 is still cached.
C1_Witness ==
    \E t \in Threads :
        /\ pc[t] = "returned" /\ sent[t] = 0
        /\ call[t] = << "DGS2", HourKey(1) >>
        /\ Hour = 1
        /\ InCache(cache, << "DGS2", HourKey(0) >>)

\* C2 as stated: once a full-history fetch has returned, every later
\* full-history fetch is answered from the cache, whatever happened between.
C2_Original ==
    [][\A t \in Threads :
         Calls(t, "SP500") /\ pinnedDone => sent'[t] = 0 /\ pc'[t] = "returned"]_vars

\* C2 amended: once a full-history fetch has returned, a later full-history
\* fetch is answered from the cache, across any clock advance, as long as
\* fewer than maxsize distinct other keys were stored or hit since the
\* full-history entry was last stored or hit.
C2_PinnedUntilEvicted ==
    [][\A t \in Threads :
         Calls(t, "SP500") /\ pinnedDone /\ Cardinality(usedSince) < maxsize
            => Hits(t, PinnedKey)]_vars

\* C2 witness: a full-history fetch answered from the cache in a later hour,
\* after another series was fetched.
C2_Witness ==
    \E t \in Threads :
        /\ pc[t] = "returned" /\ sent[t] = 0 /\ call[t] = PinnedKey
        /\ Hour >= 1
        /\ InCache(cache, << "DGS2", HourKey(0) >>)

\* C3: no provider answer makes fetch_fred_data raise.
C3_NeverRaises == \A t \in Threads : pc[t] # "raised"

TransportOrStatus == {"transport", "status"}

\* A later fetch of a series whose current-hour entry is the empty table
\* returns it without an outbound request.
NoRetryInBucket ==
    \A t \in Threads : \A s \in HourlySeries :
        (/\ Calls(t, s)
         /\ InCache(cache, << s, HourKey(Hour) >>)
         /\ Lookup(cache, << s, HourKey(Hour) >>) = EmptyTable)
            => sent'[t] = 0 /\ ret'[t] = EmptyTable /\ cache'[Len(cache')].key = << s, HourKey(Hour) >>

\* C4 as stated: a fetch whose request failed returns the empty table and
\* that empty table is the cache entry of its key; no retry in the bucket.
C4_Original ==
    [][/\ \A t \in Threads :
            Completes(t) /\ got'[t] \in TransportOrStatus
               => /\ ret'[t] = EmptyTable /\ pc'[t] = "returned"
                  /\ InCache(cache', call[t])
                  /\ Lookup(cache', call[t]) = EmptyTable
       /\ NoRetryInBucket]_vars

\* C4 amended: a fetch whose request failed returns the empty table; the
\* empty table becomes the cache entry of the key the fetch computed when it
\* started unless a concurrent fetch of the same key has stored its result
\* first, and then that entry stays; a later fetch that finds the empty
\* entry of the current hour issues no outbound request.
C4_EmptyCachedUnlessRaced ==
    [][/\ \A t \in Threads :
            Completes(t) /\ got'[t] \in TransportOrStatus
               => /\ ret'[t] = EmptyTable /\ pc'[t] = "returned"
                  /\ InCache(cache', call[t])
                  /\ Lookup(cache', call[t]) =
                        IF InCache(cache, call[t]) THEN Lookup(cache, call[t]) ELSE EmptyTable
       /\ NoRetryInBucket]_vars

\* C4 witness: one request failed and its empty table was stored; a later
\* fetch of the same key was answered with it from the cache.
C4_Witness ==
    \E t, u \in Threads :
        /\ t # u
        /\ pc[t] = "returned" /\ sent[t] = 1 /\ got[t] \in TransportOrStatus
        /\ pc[u] = "returned" /\ sent[u] = 0 /\ call[u] = call[t]
        /\ ret[u] = EmptyTable
        /\ Lookup(cache, call[t]) = EmptyTable

\* The cache holds at most one entry per key.
OneEntryPerKey == Cardinality({ cache[i].key : i \in 1..Len(cache) }) = Len(cache)

\* No other thread still waits for an answer for key k after this step.
RaceOver(t, k) == \A u \in Threads \ {t} : ~(pc'[u] = "waiting" /\ call'[u] = k)

\* A fetch that finds its key cached returns the entry, without a request.
LaterCallsHit ==
    \A t \in Threads : \A c \in RouteCalls :
        Calls(t, c[1]) /\ InCache(cache, LruKey(c[1], c[2], now))
            => Hits(t, LruKey(c[1], c[2], now))

\* C9 as stated: racing fetches each issue at most one request, and when the
\* race is over the one entry of the key is the result of the fetch that
\* finished last.
C9_Original ==
    /\ [](OneRequestPerCall /\ OneEntryPerKey)
    /\ [][/\ \A t \in Threads :
               Completes(t) /\ pc'[t] = "returned" /\ ~call[t][2].full /\ RaceOver(t, call[t])
                  => InCache(cache', call[t]) /\ Lookup(cache', call[t]) = ret'[t]
          /\ LaterCallsHit]_vars

\* C9 amended: racing fetches each issue at most one request; the one entry
\* of the key is the result of the fetch that finished FIRST: a fetch that
\* finishes later gets its own result back but leaves the cache as it is.
C9_FirstWriterWins ==
    /\ [](OneRequestPerCall /\ OneEntryPerKey)
    /\ [][/\ \A t \in Threads :
               Completes(t) /\ pc'[t] = "returned" /\ ~call[t][2].full
                  => /\ InCache(cache', call[t])
                     /\ InCache(cache, call[t]) => cache' = cache
                     /\ ~InCache(cache, call[t]) => Lookup(cache', call[t]) = ret'[t]
          /\ LaterCallsHit]_vars

\* C9 witness: two fetches of one hourly key both issued a request and got
\* different results; the entry is not the result of one of them.
C9_Witness ==
    \E t, u \in Threads :
        /\ pc[t] = "returned" /\ pc[u] = "returned"
        /\ sent[t] = 1 /\ sent[u] = 1
        /\ call[t] = call[u] /\ ~call[t][2].full
        /\ ret[t] # ret[u]
        /\ Lookup(cache, call[t]) = ret[t]

(***************************************************************************)
(* Properties of the derived metrics                                       *)
(***************************************************************************)
\* The table the view's fetch number i returned, and the fetches consumed.
Consumed == 1..Len(fetched)

\* Row 0 and row 1 both hold a number.
BothPresent(df) == Len(df) >= 2 /\ IsNum(df[1].value) /\ IsNum(df[2].value)

\* C5: a series with current and prior both present and prior = 0 gets a
\* summary entry whose pct_change is None.
C5_ZeroPriorPctAbsent ==
    \A i \in Consumed :
        (/\ route = "dashboard"
         /\ Plan(route)[i].phase = "summary"
         /\ BothPresent(fetched[i])
         /\ fetched[i][2].value = Num(0))
            => /\ HasKey(summary, Plan(route)[i].key)
               /\ Item(summary, Plan(route)[i].key).pct_change = None

\* C6: the summary entry of a non-empty table has change, pct_change and
\* trend all None when the table has fewer than two rows or one of the two
\* values is absent, and all present when both values are present.
C6_AbsenceLaw ==
    \A i \in Consumed :
        (/\ route = "dashboard"
         /\ Plan(route)[i].phase = "summary"
         /\ fetched[i] # EmptyTable)
            => /\ HasKey(summary, Plan(route)[i].key)
               /\ LET e == Item(summary, Plan(route)[i].key)
                  IN IF BothPresent(fetched[i])
                     THEN e.change # None /\ e.pct_change # None /\ e.trend # "None"
                     ELSE e.change = None /\ e.pct_change = None /\ e.trend = "None"

\* The tables the spread of the finished view was computed from.
SpreadTable(key) ==
    IF route = "dashboard"
    THEN fetched[CHOOSE i \in Consumed :
                    Plan(route)[i].key = key /\ Plan(route)[i].phase \in {"dgs2", "dgs10"}]
    ELSE fetched[CHOOSE i \in Consumed : Plan(route)[i].key = key]

\* C7: the spread is present exactly when the DGS2 and DGS10 tables are both
\* non-empty with a present row-0 value; then it is r10 - r2 and inverted
\* is spread < 0; otherwise the spread is None and inverted is False.
C7_Spread ==
    status = 200 =>
        LET r2 == Row0(SpreadTable("DGS2"))
            r10 == Row0(SpreadTable("DGS10"))
        IN IF IsNum(r2) /\ IsNum(r10)
           THEN spread_2_10 = Num(r10.v - r2.v) /\ is_inverted = (r10.v - r2.v < 0)
           ELSE spread_2_10 = None /\ is_inverted = FALSE

\* The curve the finished view emits, as (key, maturity) points.
Curve ==
    IF route = "dashboard"
    THEN [i \in 1..Len(yield_curve_data) |->
            [key |-> yield_curve_data[i].maturity_name,
             maturity |-> yield_curve_data[i].maturity]]
    ELSE [i \in 1..Len(sorted_treasuries) |->
            [key |-> sorted_treasuries[i].key,
             maturity |-> sorted_treasuries[i].maturity]]

\* The table the curve loop fetched for a Treasury series.
CurveTable(key) ==
    fetched[CHOOSE i \in Consumed :
               Plan(route)[i].key = key /\ Plan(route)[i].phase \in {"curve", "treasury"}]

\* C8: the curve holds one point for exactly the Treasury series whose table
\* is non-empty with a present row-0 value, ascending by maturity.
C8_Curve ==
    status = 200 =>
        /\ { Curve[i].key : i \in 1..Len(Curve) }
              = { k \in ViewTreasuries : IsNum(Row0(CurveTable(k))) }
        /\ \A i, j \in 1..Len(Curve) :
              /\ i < j => Curve[i].maturity <= Curve[j].maturity
              /\ Curve[i].key = Curve[j].key => i = j

HasMaturity(points, m) == \E i \in 1..Len(points) : points[i].maturity = m
YieldAt(points, m) == points[CHOOSE i \in 1..Len(points) : points[i].maturity = m].yield

\* C10: in one dashboard response, a present spread equals the 10-year yield
\* minus the 2-year yield of the curve of that same response.
C10_SpreadMatchesCurve ==
    (/\ route = "dashboard"
     /\ status = 200
     /\ spread_2_10 # None
     /\ HasMaturity(yield_curve_data, 24)
     /\ HasMaturity(yield_curve_data, 120))
        => spread_2_10 = Minus(YieldAt(yield_curve_data, 120), YieldAt(yield_curve_data, 24))

====
